---------------------------- MODULE Spec2Model ----------------------------
(***************************************************************************)
(* A model of the TextAnalyzer sentiment pipeline:                         *)
(*   tokenizer.py          TextTokenizerEnhanced.tokenize_with_positions   *)
(*   sentiment_analyzer.py SentimentAnalyzer (lexicon load, rule engine,   *)
(*                         score normalizer, label)                        *)
(*   stem_processor.py     MyStemProcessor.analyze_text (external call)    *)
(*                                                                         *)
(* Encodings.                                                              *)
(*  - A Python str is a sequence of characters; a character is a one-atom  *)
(*    string.  TLA+ source is ASCII, so a Cyrillic letter is written by    *)
(*    its transliteration ("zh" is U+0436, "ZH" is U+0416, "soft" is the   *)
(*    soft sign), a Latin letter by "lat_x", an emoji by its code point.   *)
(*  - A Python float is an exact rational <<n, d>>, d > 0, in lowest       *)
(*    terms.  TLC stops with an overflow error whenever a product leaves   *)
(*    32 bits, so every completed run computed exactly.                    *)
(*  - The normalized score s / sqrt(r1) / sqrt(r2) is irrational in        *)
(*    general; it is carried as [num |-> s, rads |-> <<r1, r2>>] and       *)
(*    compared exactly with a rational, the products taken over numbers    *)
(*    held as sequences of digits to the base Base.                        *)
(***************************************************************************)
EXTENDS Integers, Sequences, FiniteSets, TLC

VARIABLES
    pc,          \* "new" | "ready" | "done": position of the host around analyze
    file,        \* the lexicon file the constructor finds on disk
    lexicon,     \* SentimentAnalyzer._lexicon
    text,        \* argument of the current analyze call
    lemmatized,  \* whether the normalizer delivered lemmas for this call
    tokens,      \* tokenizer output of the current call
    all_tokens,  \* the list analyze hands to the rule engine
    raw,         \* [score, word_count] returned by the rule engine
    outcome,     \* "none" | "returned" | "raised"
    error,       \* exception type that left analyze, or "none"
    result,      \* the SentimentResult returned
    stem         \* state of one MyStemProcessor.analyze_text call

vars == <<pc, file, lexicon, text, lemmatized, tokens, all_tokens, raw,
          outcome, error, result, stem>>

pipeline_vars == <<pc, file, lexicon, text, lemmatized, tokens, all_tokens,
                   raw, outcome, error, result>>

-----------------------------------------------------------------------------
(* Bounds of the model.                                                    *)

\* longest text, in pieces of the vocabulary
MaxChunks == 3

\* longest standard output of the external process, in lines
MaxStemLines == 2

\* longest text over TokAlphabet, in characters
MaxTextLen == 4

-----------------------------------------------------------------------------
(* Exact rational arithmetic (Python float).                               *)

Abs(n) == IF n < 0 THEN -n ELSE n

Sign(n) == IF n < 0 THEN -1 ELSE IF n = 0 THEN 0 ELSE 1

RECURSIVE Gcd(_, _)
Gcd(a, b) == IF b = 0 THEN a ELSE Gcd(b, a % b)

\* the rational n/d in lowest terms, d > 0
Rat(n, d) ==
    LET g == Gcd(Abs(n), Abs(d))
        s == IF d < 0 THEN -1 ELSE 1
    IN  <<(s * n) \div g, (s * d) \div g>>

Int2Rat(n) == <<n, 1>>

RMul(x, y) ==
    LET g1 == Gcd(Abs(x[1]), y[2])
        g2 == Gcd(Abs(y[1]), x[2])
    IN  <<(x[1] \div g1) * (y[1] \div g2), (x[2] \div g2) * (y[2] \div g1)>>

RAdd(x, y) ==
    LET g == Gcd(x[2], y[2])
    IN  Rat(x[1] * (y[2] \div g) + y[1] * (x[2] \div g), (x[2] \div g) * y[2])

RNeg(x) == <<-x[1], x[2]>>

RSub(x, y) == RAdd(x, RNeg(y))

\* comparison of a/b with c/d for a, c >= 0 and b, d > 0, by continued
\* fractions: no product is formed, so no operand leaves 32 bits
RECURSIVE CmpFrac(_, _, _, _)
CmpFrac(a, b, c, d) ==
    LET q1 == a \div b
        q2 == c \div d
        r1 == a % b
        r2 == c % d
    IN  IF q1 # q2 THEN (IF q1 < q2 THEN -1 ELSE 1)
        ELSE IF r1 = 0 /\ r2 = 0 THEN 0
        ELSE IF r1 = 0 THEN -1
        ELSE IF r2 = 0 THEN 1
        ELSE CmpFrac(d, r2, b, r1)

\* -1, 0, 1 as x < y, x = y, x > y
RCmp(x, y) ==
    IF Sign(x[1]) # Sign(y[1]) THEN (IF Sign(x[1]) < Sign(y[1]) THEN -1 ELSE 1)
    ELSE IF x[1] >= 0 THEN CmpFrac(x[1], x[2], y[1], y[2])
    ELSE CmpFrac(-y[1], y[2], -x[1], x[2])

RLt(x, y) == RCmp(x, y) < 0

RLe(x, y) == RCmp(x, y) <= 0

RGt(x, y) == RCmp(x, y) > 0

RGe(x, y) == RCmp(x, y) >= 0

Zero == Int2Rat(0)

-----------------------------------------------------------------------------
(* Natural numbers beyond 32 bits, as sequences of limbs, least            *)
(* significant first, without leading zero limbs (zero is <<>>).  They are *)
(* used only to compare products.                                          *)

Base == 10000

RECURSIVE BigOfInt(_)
BigOfInt(n) == IF n = 0 THEN <<>> ELSE <<n % Base>> \o BigOfInt(n \div Base)

\* a * m + carry for a limb m
RECURSIVE BigMulLimb(_, _, _)
BigMulLimb(a, m, carry) ==
    IF a = <<>> THEN BigOfInt(carry)
    ELSE LET p == Head(a) * m + carry
         IN  <<p % Base>> \o BigMulLimb(Tail(a), m, p \div Base)

RECURSIVE BigAdd(_, _, _)
BigAdd(a, b, carry) ==
    IF a = <<>> /\ b = <<>> THEN BigOfInt(carry)
    ELSE LET x == IF a = <<>> THEN 0 ELSE Head(a)
             y == IF b = <<>> THEN 0 ELSE Head(b)
             t == x + y + carry
         IN  <<t % Base>> \o BigAdd(IF a = <<>> THEN a ELSE Tail(a),
                                    IF b = <<>> THEN b ELSE Tail(b),
                                    t \div Base)

\* a * Base
BigShift(a) == IF a = <<>> THEN a ELSE <<0>> \o a

RECURSIVE BigMul(_, _)
BigMul(a, b) ==
    IF a = <<>> \/ b = <<>> THEN <<>>
    ELSE BigAdd(BigMulLimb(a, Head(b), 0), BigShift(BigMul(a, Tail(b))), 0)

\* the product of a sequence of naturals
RECURSIVE BigProd(_)
BigProd(ns) ==
    IF ns = <<>> THEN <<1>> ELSE BigMul(BigOfInt(Head(ns)), BigProd(Tail(ns)))

\* -1, 0, 1 as a < b, a = b, a > b
RECURSIVE BigCmp(_, _)
BigCmp(a, b) ==
    IF Len(a) # Len(b) THEN (IF Len(a) < Len(b) THEN -1 ELSE 1)
    ELSE IF a = <<>> THEN 0
    ELSE IF a[Len(a)] # b[Len(b)] THEN (IF a[Len(a)] < b[Len(b)] THEN -1 ELSE 1)
    ELSE BigCmp(SubSeq(a, 1, Len(a) - 1), SubSeq(b, 1, Len(b) - 1))

-----------------------------------------------------------------------------
(* The real number num / (sqrt(rads[1]) * ... * sqrt(rads[k])), every      *)
(* rads[i] > 0: what dividing a float by square roots leaves.              *)

Surd(num, rads) == [num |-> num, rads |-> rads]

\* a float that is a plain rational
Plain(x) == Surd(x, <<>>)

\* v / math.sqrt(r)
SurdDivSqrt(v, r) == Surd(v.num, Append(v.rads, r))

\* -1, 0, 1 as v < t, v = t, v > t for a rational t: by sign, and for equal
\* signs by the squares, num^2 * t[2]^2 * prod(rads[i][2]) against
\* t[1]^2 * num[2]^2 * prod(rads[i][1])
SurdCmp(v, t) ==
    LET sv == Sign(v.num[1])
        st == Sign(t[1])
        n == Abs(v.num[1])
        a == Abs(t[1])
        lhs == BigProd(<<n, n, t[2], t[2]>> \o [i \in 1..Len(v.rads) |-> v.rads[i][2]])
        rhs == BigProd(<<a, a, v.num[2], v.num[2]>> \o [i \in 1..Len(v.rads) |-> v.rads[i][1]])
        mag == BigCmp(lhs, rhs)
    IN  IF sv # st THEN (IF sv < st THEN -1 ELSE 1)
        ELSE IF sv = 0 THEN 0
        ELSE IF sv > 0 THEN mag
        ELSE -mag

SurdIsZero(v) == v.num[1] = 0

-----------------------------------------------------------------------------
(* Characters.                                                             *)

\* <<uppercase, lowercase>> of the 33 Cyrillic letters
CyrillicPairs ==
    {
      <<"A", "a">>,
      <<"B", "b">>,
      <<"V", "v">>,
      <<"G", "g">>,
      <<"D", "d">>,
      <<"E", "e">>,
      <<"YO", "yo">>,
      <<"ZH", "zh">>,
      <<"Z", "z">>,
      <<"I", "i">>,
      <<"J", "j">>,
      <<"K", "k">>,
      <<"L", "l">>,
      <<"M", "m">>,
      <<"N", "n">>,
      <<"O", "o">>,
      <<"P", "p">>,
      <<"R", "r">>,
      <<"S", "s">>,
      <<"T", "t">>,
      <<"U", "u">>,
      <<"F", "f">>,
      <<"H", "h">>,
      <<"C", "c">>,
      <<"CH", "ch">>,
      <<"SH", "sh">>,
      <<"SHCH", "shch">>,
      <<"HARD", "hard">>,
      <<"Y", "y">>,
      <<"SOFT", "soft">>,
      <<"EH", "eh">>,
      <<"YU", "yu">>,
      <<"YA", "ya">> }

\* <<uppercase, lowercase>> of the Latin letters of the model's alphabet
LatinPairs ==
    { <<"lat_D", "lat_d">>, <<"lat_P", "lat_p">>, <<"lat_O", "lat_o">>,
      <<"lat_K", "lat_k">> }

CyrUpper == {p[1] : p \in CyrillicPairs}

CyrLower == {p[2] : p \in CyrillicPairs}

\* U+1C80, CYRILLIC SMALL LETTER ROUNDED VE: a lowercase letter outside
\* а-я whose uppercase is U+0412, so that [а-яё] matches it under
\* re.IGNORECASE
CyrExtendedLower == {"U+1C80"}

Digits == {"0", "1", "2", "3", "4", "5", "6", "7", "8", "9"}

\* one code point of each block the pattern names
EmojiChars == {"U+1F300", "U+1F600", "U+1F680", "U+1F1F7", "U+2639", "U+2764"}

\* str.lower() on one character
LowerChar(c) ==
    IF \E p \in CyrillicPairs \cup LatinPairs : p[1] = c
    THEN (CHOOSE p \in CyrillicPairs \cup LatinPairs : p[1] = c)[2]
    ELSE c

IsUpperChar(c) == \E p \in CyrillicPairs \cup LatinPairs : p[1] = c

IsLowerChar(c) ==
    \/ \E p \in CyrillicPairs \cup LatinPairs : p[2] = c
    \/ c \in CyrExtendedLower

\* \w of the re module
IsWordChar(c) ==
    \/ IsUpperChar(c)
    \/ IsLowerChar(c)
    \/ c \in Digits
    \/ c = "_"

\* [а-яё] under re.IGNORECASE
CyrillicClass == CyrUpper \cup CyrLower \cup CyrExtendedLower

IsCyrillic(c) == c \in CyrillicClass

\* [!?.,;]
TrailingPunctClass == {"!", "?", ".", ",", ";"}

IsTrailingPunct(c) == c \in TrailingPunctClass

\* [:;8=]
IsEyes(c) == c \in {":", ";", "8", "="}

\* [\-\^]
IsNose(c) == c \in {"-", "^"}

\* [)D(PO3] under re.IGNORECASE
MouthClass ==
    {")", "(", "3", "lat_D", "lat_P", "lat_O", "lat_d", "lat_p", "lat_o"}

-----------------------------------------------------------------------------
(* Python str operations used by the program.                              *)

\* str.lower()
Lower(s) == [i \in 1..Len(s) |-> LowerChar(s[i])]

\* str.isupper(): no lowercase cased character and at least one uppercase
IsUpper(s) ==
    /\ \E i \in 1..Len(s) : IsUpperChar(s[i])
    /\ \A i \in 1..Len(s) : ~IsLowerChar(s[i])

\* str.count(c) for a one-character c
Count(s, c) == Cardinality({i \in 1..Len(s) : s[i] = c})

\* c in s
Contains(s, c) == \E i \in 1..Len(s) : s[i] = c

\* re.sub(r'[!?.,;]+$', '', s)
RECURSIVE StripTrailingPunct(_)
StripTrailingPunct(s) ==
    IF Len(s) > 0 /\ IsTrailingPunct(s[Len(s)])
    THEN StripTrailingPunct(SubSeq(s, 1, Len(s) - 1))
    ELSE s

-----------------------------------------------------------------------------
(* tokenizer.py                                                            *)

Token(value, original_value, is_emoji) ==
    [value |-> value, original_value |-> original_value, is_emoji |-> is_emoji]

\* first index at or after i whose character is outside the class C,
\* Len(s) + 1 if none: the end of a greedy C* at i
RECURSIVE RunEnd(_, _, _)
RunEnd(s, i, C) ==
    IF i <= Len(s) /\ s[i] \in C THEN RunEnd(s, i + 1, C) ELSE i

\* (?:[:;8=][\-\^]?[)D(PO3]+) at i: the index after the match, 0 if none
MatchEmoticon(s, i) ==
    IF ~IsEyes(s[i]) THEN 0
    ELSE LET withNose == IF i + 1 <= Len(s) /\ IsNose(s[i + 1])
                         THEN RunEnd(s, i + 2, MouthClass) ELSE 0
             noNose   == RunEnd(s, i + 1, MouthClass)
         IN  IF withNose > i + 2 THEN withNose
             ELSE IF noNose > i + 1 THEN noNose
             ELSE 0

\* one of the six single-code-point alternatives at i
MatchEmojiChar(s, i) == IF s[i] \in EmojiChars THEN i + 1 ELSE 0

\* (\b[а-яё]+\b[!?.,;]*) at i: the index after the match, 0 if none.  The
\* letters are matched greedily; a shorter run never ends at a \b, because
\* the letter after it is a word character.
MatchWord(s, i) ==
    IF ~IsCyrillic(s[i]) THEN 0
    ELSE IF i > 1 /\ IsWordChar(s[i - 1]) THEN 0
    ELSE LET e == RunEnd(s, i, CyrillicClass)
         IN  IF e <= Len(s) /\ IsWordChar(s[e]) THEN 0
             ELSE RunEnd(s, e, TrailingPunctClass)

\* comprehensive.finditer(text) from index i: the matches, in order, as
\* [from, to, word], word telling whether group 1 took part
RECURSIVE FindIter(_, _)
FindIter(s, i) ==
    IF i > Len(s) THEN <<>>
    ELSE LET em == MatchEmoticon(s, i)
             ec == MatchEmojiChar(s, i)
             wd == MatchWord(s, i)
         IN  IF em > 0
             THEN <<[from |-> i, to |-> em - 1, word |-> FALSE]>> \o FindIter(s, em)
             ELSE IF ec > 0
             THEN <<[from |-> i, to |-> ec - 1, word |-> FALSE]>> \o FindIter(s, ec)
             ELSE IF wd > 0
             THEN <<[from |-> i, to |-> wd - 1, word |-> TRUE]>> \o FindIter(s, wd)
             ELSE FindIter(s, i + 1)

\* the tokens of one match with the punctuation left on the word
match_tokens_unstripped(s, m) ==
    LET matched == SubSeq(s, m.from, m.to)
    IN  IF m.word
        THEN <<Token(Lower(matched), matched, FALSE)>>
        ELSE <<Token(matched, matched, TRUE)>>

\* the tokens one match appends
MatchTokens(s, m) ==
    LET matched == SubSeq(s, m.from, m.to)
        clean_word == StripTrailingPunct(matched)
    IN  IF m.word
        THEN (IF clean_word # <<>>
              THEN <<Token(Lower(clean_word), matched, FALSE)>> ELSE <<>>)
        ELSE (IF matched # <<>> THEN <<Token(matched, matched, TRUE)>> ELSE <<>>)

RECURSIVE FlatMapTokens(_, _)
FlatMapTokens(s, ms) ==
    IF ms = <<>> THEN <<>>
    ELSE MatchTokens(s, Head(ms)) \o FlatMapTokens(s, Tail(ms))

tokenize_with_positions(s) ==
    SelectSeq(FlatMapTokens(s, FindIter(s, 1)), LAMBDA t : t.value # <<>>)

-----------------------------------------------------------------------------
(* sentiment_analyzer.py: the static tables.                               *)

\* the dictionary returned by _load_booster_words
_load_booster_words ==
    (<<"p", "r", "e", "k", "r", "a", "s", "n", "o">> :> Rat(4, 1)) @@
    (<<"i", "d", "e", "a", "l", "soft", "n", "o">> :> Rat(4, 1)) @@
    (<<"v", "o", "s", "h", "i", "t", "i", "t", "e", "l", "soft", "n", "o">> :> Rat(4, 1)) @@
    (<<"b", "l", "e", "s", "t", "ya", "shch", "e">> :> Rat(4, 1)) @@
    (<<"v", "e", "l", "i", "k", "o", "l", "e", "p", "n", "o">> :> Rat(4, 1)) @@
    (<<"p", "o", "t", "r", "ya", "s", "a", "yu", "shch", "e">> :> Rat(3, 1)) @@
    (<<"i", "z", "u", "m", "i", "t", "e", "l", "soft", "n", "o">> :> Rat(3, 1)) @@
    (<<"n", "e", "v", "e", "r", "o", "ya", "t", "n", "o">> :> Rat(3, 1)) @@
    (<<"o", "ch", "e", "n", "soft">> :> Rat(2, 1)) @@
    (<<"ch", "r", "e", "z", "v", "y", "ch", "a", "j", "n", "o">> :> Rat(2, 1)) @@
    (<<"i", "s", "k", "l", "yu", "ch", "i", "t", "e", "l", "soft", "n", "o">> :> Rat(2, 1)) @@
    (<<"n", "e", "o", "b", "y", "ch", "a", "j", "n", "o">> :> Rat(2, 1)) @@
    (<<"d", "o", "v", "o", "l", "soft", "n", "o">> :> Rat(1, 1)) @@
    (<<"v", "e", "s", "soft", "m", "a">> :> Rat(1, 1)) @@
    (<<"d", "o", "s", "t", "a", "t", "o", "ch", "n", "o">> :> Rat(1, 1)) @@
    (<<"a", "b", "s", "o", "l", "yu", "t", "n", "o">> :> Rat(0, 1)) @@
    (<<"s", "o", "v", "e", "r", "sh", "e", "n", "n", "o">> :> Rat(0, 1)) @@
    (<<"p", "o", "l", "n", "o", "s", "t", "soft", "yu">> :> Rat(0, 1)) @@
    (<<"c", "e", "l", "i", "k", "o", "m">> :> Rat(0, 1)) @@
    (<<"p", "r", "ya", "m", "o">> :> Rat(0, 1)) @@
    (<<"p", "r", "o", "s", "t", "o">> :> Rat(0, 1)) @@
    (<<"p", "r", "ya", "m", "o", "-", "t", "a", "k", "i">> :> Rat(0, 1)) @@
    (<<"d", "a", "zh", "e">> :> Rat(0, 1)) @@
    (<<"v", "o", "t">> :> Rat(0, 1)) @@
    (<<"zh", "e">> :> Rat(0, 1)) @@
    (<<"s", "l", "i", "sh", "k", "o", "m">> :> Rat(-1, 1)) @@
    (<<"ch", "r", "e", "z", "m", "e", "r", "n", "o">> :> Rat(-1, 1)) @@
    (<<"k", "a", "t", "a", "s", "t", "r", "o", "f", "i", "ch", "e", "s", "k", "i">> :> Rat(-2, 1)) @@
    (<<"k", "r", "i", "t", "i", "ch", "e", "s", "k", "i">> :> Rat(-2, 1)) @@
    (<<"u", "zh", "a", "s", "n", "o">> :> Rat(-2, 1)) @@
    (<<"k", "o", "sh", "m", "a", "r", "n", "o">> :> Rat(-2, 1)) @@
    (<<"o", "t", "v", "r", "a", "t", "i", "t", "e", "l", "soft", "n", "o">> :> Rat(-4, 1)) @@
    (<<"o", "m", "e", "r", "z", "i", "t", "e", "l", "soft", "n", "o">> :> Rat(-4, 1)) @@
    (<<"u", "zh", "a", "s", "a", "yu", "shch", "e">> :> Rat(-3, 1)) @@
    (<<"n", "e", "v", "y", "n", "o", "s", "i", "m", "o">> :> Rat(-3, 1)) @@
    (<<"n", "e", "s", "t", "e", "r", "p", "i", "m", "o">> :> Rat(-3, 1))

\* the set returned by _load_negation_words
_load_negation_words ==
    {
      <<"n", "e">>,
      <<"n", "e", "t">>,
      <<"n", "i">>,
      <<"n", "i", "k", "o", "g", "d", "a">>,
      <<"n", "i", "s", "k", "o", "l", "soft", "k", "o">>,
      <<"n", "i", "k", "a", "k">>,
      <<"n", "i", "ch", "u", "t", "soft">>,
      <<"n", "i", "ch", "e", "g", "o">>,
      <<"n", "i", "k", "u", "d", "a">>,
      <<"n", "i", "g", "d", "e">>,
      <<"n", "i", "k", "t", "o">>,
      <<"n", "i", "ch", "t", "o">> }

\* the property _intensifiers
_intensifiers ==
    {
      <<"zh", "e">>,
      <<"v", "e", "d", "soft">>,
      <<"v", "o", "t">>,
      <<"p", "r", "ya", "m", "o">>,
      <<"p", "r", "o", "s", "t", "o">>,
      <<"d", "e", "j", "s", "t", "v", "i", "t", "e", "l", "soft", "n", "o">>,
      <<"i", "m", "e", "n", "n", "o">>,
      <<"t", "o", "ch", "n", "o">>,
      <<"r", "o", "v", "n", "o">> }

\* the local dictionary of _apply_modifier_rules_enhanced
modifiers ==
    (<<"v", "r", "o", "d", "e">> :> Rat(7, 10)) @@
    (<<"k", "a", "k", " ", "b", "y">> :> Rat(3, 5)) @@
    (<<"t", "i", "p", "a">> :> Rat(7, 10)) @@
    (<<"p", "o", "ch", "t", "i">> :> Rat(4, 5)) @@
    (<<"s", "l", "e", "g", "k", "a">> :> Rat(4, 5)) @@
    (<<"n", "e", "m", "n", "o", "g", "o">> :> Rat(4, 5)) @@
    (<<"o", "t", "ch", "a", "s", "t", "i">> :> Rat(9, 10)) @@
    (<<"ch", "a", "s", "t", "i", "ch", "n", "o">> :> Rat(9, 10)) @@
    (<<"n", "e", " ", "s", "o", "v", "s", "e", "m">> :> Rat(1, 2)) @@
    (<<"v", " ", "n", "e", "k", "o", "t", "o", "r", "o", "j", " ", "s", "t", "e", "p", "e", "n", "i">> :> Rat(4, 5))

\* the local set of _apply_contrast_rules_enhanced
contrast_words ==
    {
      <<"n", "o">>,
      <<"o", "d", "n", "a", "k", "o">>,
      <<"t", "e", "m", " ", "n", "e", " ", "m", "e", "n", "e", "e">>,
      <<"v", "p", "r", "o", "ch", "e", "m">> }

-----------------------------------------------------------------------------
(* sentiment_analyzer.py: the rule engine.  Python indexes from 0, the     *)
(* sequences here from 1: position i below is Python's index i - 1, and    *)
(* range(max(0, index - k), index) is Window(i, k).                        *)

Max(a, b) == IF a >= b THEN a ELSE b

Min(a, b) == IF a <= b THEN a ELSE b

MinOf(S) == CHOOSE x \in S : \A y \in S : x <= y

Window(i, k) == Max(1, i - k)..(i - 1)

_apply_negation_rules_enhanced(toks, i, score) ==
    LET hits == {j \in Window(i, 3) :
                    ~toks[j].is_emoji /\ toks[j].value \in _load_negation_words}
    IN  IF hits = {} THEN score
        ELSE LET j == MinOf(hits)    \* the loop returns at its first hit
                 distance == i - j
                 negation_strength ==
                     RSub(Int2Rat(1), RMul(Int2Rat(distance - 1), Rat(1, 10)))
             IN  RMul(RMul(score, Rat(-74, 100)), negation_strength)

\* the booster rule going on to the next token after a booster word
booster_then_intensifier(toks, i, score) ==
    LET boosted == IF /\ i > 1
                      /\ ~toks[i - 1].is_emoji
                      /\ toks[i - 1].value \in DOMAIN _load_booster_words
                   THEN RMul(score, _load_booster_words[toks[i - 1].value])
                   ELSE score
    IN  IF /\ i < Len(toks)
           /\ ~toks[i + 1].is_emoji
           /\ toks[i + 1].value \in _intensifiers
        THEN RMul(boosted, Rat(11, 10))
        ELSE boosted

_apply_booster_rules_enhanced(toks, i, score) ==
    IF /\ i > 1
       /\ ~toks[i - 1].is_emoji
       /\ toks[i - 1].value \in DOMAIN _load_booster_words
    THEN RMul(score, _load_booster_words[toks[i - 1].value])
    ELSE IF /\ i < Len(toks)
            /\ ~toks[i + 1].is_emoji
            /\ toks[i + 1].value \in _intensifiers
    THEN RMul(score, Rat(11, 10))
    ELSE score

_apply_emoji_punctuation_rules(token, score) ==
    IF token.is_emoji THEN score
    ELSE IF Contains(token.original_value, "!")
    THEN RMul(score, RAdd(Int2Rat(1),
              RMul(Int2Rat(Count(token.original_value, "!")), Rat(1, 10))))
    ELSE IF Contains(token.original_value, "?")
    THEN RMul(score, RSub(Int2Rat(1),
              RMul(Int2Rat(Count(token.original_value, "?")), Rat(5, 100))))
    ELSE score

_apply_modifier_rules_enhanced(toks, i, score) ==
    LET hits == {j \in Window(i, 2) :
                    ~toks[j].is_emoji /\ toks[j].value \in DOMAIN modifiers}
    IN  IF hits = {} THEN score
        ELSE RMul(score, modifiers[toks[MinOf(hits)].value])

_apply_contrast_rules_enhanced(toks, i, score) ==
    IF \E j \in Window(i, 5) :
           ~toks[j].is_emoji /\ toks[j].value \in contrast_words
    THEN RMul(score, Rat(13, 10))
    ELSE score

_apply_caps_rules(token_value, score) ==
    IF IsUpper(token_value) /\ Len(token_value) > 1
    THEN RMul(score, Rat(12, 10))
    ELSE score

\* sum(f(token) for token in toks)
RECURSIVE SumCount(_, _)
SumCount(toks, c) ==
    IF toks = <<>> THEN 0
    ELSE Count(Head(toks).original_value, c) + SumCount(Tail(toks), c)

_apply_global_emoji_rules(lex, toks, score) ==
    LET emoji_score(t) == IF t.value \in DOMAIN lex THEN lex[t.value] ELSE Zero
        positive_emojis ==
            Cardinality({k \in 1..Len(toks) :
                toks[k].is_emoji /\ RGt(emoji_score(toks[k]), Zero)})
        negative_emojis ==
            Cardinality({k \in 1..Len(toks) :
                toks[k].is_emoji /\ RLt(emoji_score(toks[k]), Zero)})
        total_exclamations == SumCount(toks, "!")
        total_questions == SumCount(toks, "?")
        s1 == IF positive_emojis > 1
              THEN RMul(score, RAdd(Int2Rat(1),
                       RMul(Int2Rat(positive_emojis), Rat(5, 100))))
              ELSE score
        s2 == IF negative_emojis > 1
              THEN RMul(s1, RSub(Int2Rat(1),
                       RMul(Int2Rat(negative_emojis), Rat(5, 100))))
              ELSE s1
        s3 == IF total_exclamations > 0
              THEN RMul(s2, RAdd(Int2Rat(1),
                       RMul(Int2Rat(Min(total_exclamations, 10)), Rat(5, 100))))
              ELSE s2
        s4 == IF total_questions > 3
              THEN RMul(s3, RSub(Int2Rat(1),
                       RMul(Int2Rat(Min(total_questions - 3, 5)), Rat(3, 100))))
              ELSE s3
    IN  s4

\* the body of the loop for a token that is a lexicon key: its word_score
\* when it is added to the total
word_score(lex, toks, i) ==
    LET token == toks[i]
        w0 == lex[token.value]
        w1 == IF ~token.is_emoji
              THEN _apply_negation_rules_enhanced(toks, i, w0) ELSE w0
        w2 == _apply_booster_rules_enhanced(toks, i, w1)
        w3 == IF ~token.is_emoji
              THEN _apply_caps_rules(token.value, w2) ELSE w2
        w4 == _apply_emoji_punctuation_rules(token, w3)
        w5 == _apply_modifier_rules_enhanced(toks, i, w4)
        w6 == _apply_contrast_rules_enhanced(toks, i, w5)
    IN  w6

\* the loop over enumerate(tokens), from position i on, started with the
\* running [score, word_count] acc
RECURSIVE vader_loop(_, _, _, _)
vader_loop(lex, toks, i, acc) ==
    IF i > Len(toks) THEN acc
    ELSE IF toks[i].value \in DOMAIN lex
    THEN vader_loop(lex, toks, i + 1,
             [score |-> RAdd(acc.score, word_score(lex, toks, i)),
              word_count |-> acc.word_count + 1])
    ELSE vader_loop(lex, toks, i + 1, acc)

\* word_count as the number of tokens that changed the total
vader_rules_counting_scored(lex, toks) ==
    LET looped == vader_loop(lex, toks, 1, [score |-> Zero, word_count |-> 0])
    IN  [score |-> _apply_global_emoji_rules(lex, toks, looped.score),
         word_count |-> Cardinality({k \in 1..Len(toks) :
                            /\ toks[k].value \in DOMAIN lex
                            /\ word_score(lex, toks, k) # Zero})]

_apply_vader_rules_enhanced(lex, toks) ==
    LET looped == vader_loop(lex, toks, 1, [score |-> Zero, word_count |-> 0])
    IN  [score |-> _apply_global_emoji_rules(lex, toks, looped.score),
         word_count |-> looped.word_count]

-----------------------------------------------------------------------------
(* sentiment_analyzer.py: the score normalizer and the label.              *)

\* the normalizer without the early return, dividing the shifted score
normalize_shifted_score(score, word_count) ==
    LET shifted == RAdd(score, Int2Rat(15))
        damp == RAdd(Int2Rat(1), RMul(Int2Rat(word_count), Rat(1, 1000)))
        normalized == SurdDivSqrt(SurdDivSqrt(Plain(shifted), shifted), damp)
    IN  IF RLt(shifted, Zero)
        THEN [raised |-> "ValueError", value |-> Plain(Zero)]
        ELSE IF shifted = Zero
        THEN [raised |-> "ZeroDivisionError", value |-> Plain(Zero)]
        ELSE IF SurdCmp(normalized, Int2Rat(4)) > 0
        THEN [raised |-> "none", value |-> Plain(Int2Rat(4))]
        ELSE IF SurdCmp(normalized, Int2Rat(-4)) < 0
        THEN [raised |-> "none", value |-> Plain(Int2Rat(-4))]
        ELSE [raised |-> "none", value |-> normalized]

\* [raised, value]: the exception type that leaves the call ("none" when it
\* returns) and the value returned
_normalize_vader_score(score, word_count) ==
    LET shifted == RAdd(score, Int2Rat(15))
        damp == RAdd(Int2Rat(1), RMul(Int2Rat(word_count), Rat(1, 1000)))
        normalized == SurdDivSqrt(SurdDivSqrt(Plain(score), shifted), damp)
    IN  IF word_count = 0 THEN [raised |-> "none", value |-> Plain(Zero)]
        \* math.sqrt of a negative float: "math domain error"
        ELSE IF RLt(shifted, Zero)
        THEN [raised |-> "ValueError", value |-> Plain(Zero)]
        \* score / math.sqrt(0.0): "float division by zero"
        ELSE IF shifted = Zero
        THEN [raised |-> "ZeroDivisionError", value |-> Plain(Zero)]
        ELSE IF SurdCmp(normalized, Int2Rat(4)) > 0
        THEN [raised |-> "none", value |-> Plain(Int2Rat(4))]
        ELSE IF SurdCmp(normalized, Int2Rat(-4)) < 0
        THEN [raised |-> "none", value |-> Plain(Int2Rat(-4))]
        ELSE [raised |-> "none", value |-> normalized]

\* the label with strict comparisons
label_strict_thresholds(score) ==
    IF SurdCmp(score, Rat(5, 100)) > 0 THEN "Positive"
    ELSE IF SurdCmp(score, Rat(-5, 100)) < 0 THEN "Negative"
    ELSE "Neutral"

\* "Positive", "Negative" and "Neutral" stand for the three Russian labels
_get_sentiment_label(score) ==
    IF SurdCmp(score, Rat(5, 100)) >= 0 THEN "Positive"
    ELSE IF SurdCmp(score, Rat(-5, 100)) <= 0 THEN "Negative"
    ELSE "Neutral"

-----------------------------------------------------------------------------
(* sentiment_analyzer.py: loading the lexicon file.                        *)

Whitespace == {" ", "TAB"}

\* str.strip()
RECURSIVE Strip(_)
Strip(s) ==
    IF s = <<>> THEN s
    ELSE IF s[1] \in Whitespace THEN Strip(Tail(s))
    ELSE IF s[Len(s)] \in Whitespace THEN Strip(SubSeq(s, 1, Len(s) - 1))
    ELSE s

\* str.split(sep) for a one-character sep: at least one part
RECURSIVE Split(_, _)
Split(s, sep) ==
    LET hits == {i \in 1..Len(s) : s[i] = sep}
    IN  IF hits = {} THEN <<s>>
        ELSE LET i == MinOf(hits)
             IN  <<SubSeq(s, 1, i - 1)>> \o Split(SubSeq(s, i + 1, Len(s)), sep)

\* str.replace(a, b) for one-character a and b
Replace(s, a, b) == [i \in 1..Len(s) |-> IF s[i] = a THEN b ELSE s[i]]

DigitChars == <<"0", "1", "2", "3", "4", "5", "6", "7", "8", "9">>

DigitVal(c) == (CHOOSE k \in 1..10 : DigitChars[k] = c) - 1

RECURSIVE Pow10(_)
Pow10(k) == IF k = 0 THEN 1 ELSE 10 * Pow10(k - 1)

\* the number a string of decimal digits writes
RECURSIVE DigitsVal(_)
DigitsVal(s) ==
    IF s = <<>> THEN 0
    ELSE 10 * DigitsVal(SubSeq(s, 1, Len(s) - 1)) + DigitVal(s[Len(s)])

\* float(s) on [sign] digits [. digits]: [ok, value]; ok = FALSE is the
\* ValueError float raises.  Exponents, inf and nan are outside the model.
ParseFloat(s) ==
    LET signed == s # <<>> /\ s[1] \in {"-", "+"}
        body == IF signed THEN Tail(s) ELSE s
        dots == {i \in 1..Len(body) : body[i] = "."}
        dot == IF dots = {} THEN Len(body) + 1 ELSE MinOf(dots)
        whole == SubSeq(body, 1, dot - 1)
        frac == SubSeq(body, dot + 1, Len(body))
        wellformed ==
            /\ Cardinality(dots) <= 1
            /\ Len(whole) + Len(frac) > 0
            /\ \A i \in 1..Len(whole) : whole[i] \in Digits
            /\ \A i \in 1..Len(frac) : frac[i] \in Digits
        magnitude == Rat(DigitsVal(whole) * Pow10(Len(frac)) + DigitsVal(frac),
                         Pow10(Len(frac)))
    IN  IF ~wellformed THEN [ok |-> FALSE, value |-> Zero]
        ELSE [ok |-> TRUE,
              value |-> IF signed /\ s[1] = "-" THEN RNeg(magnitude) ELSE magnitude]

EmptyDict == [k \in {} |-> Zero]

\* d[k] = v
DictSet(d, k, v) == [x \in DOMAIN d \cup {k} |-> IF x = k THEN v ELSE d[x]]

\* the body of the first reading loop for one line
load_line(lex, line) ==
    LET stripped == Strip(line)
        parts == Split(stripped, "TAB")
        word == Strip(parts[1])
        score_str == Strip(Replace(parts[2], ",", "."))
        parsed == ParseFloat(score_str)
    IN  IF stripped = <<>> THEN lex
        ELSE IF Len(parts) < 2 THEN lex
        ELSE IF ~parsed.ok THEN lex
        ELSE DictSet(lex, word, parsed.value)

\* the body of the reading loop of the except branch for one line: the score
\* column is parsed as it stands.  float tolerates surrounding whitespace.
load_line_retry(lex, line) ==
    LET stripped == Strip(line)
        columns == Split(stripped, "TAB")
        word == Strip(columns[1])
        parsed == ParseFloat(Strip(columns[2]))
    IN  IF stripped = <<>> THEN lex
        ELSE IF Len(columns) < 2 THEN lex
        ELSE IF ~parsed.ok THEN lex
        ELSE DictSet(lex, word, parsed.value)

RECURSIVE load_lines(_, _)
load_lines(lex, lines) ==
    IF lines = <<>> THEN lex
    ELSE load_lines(load_line(lex, Head(lines)), Tail(lines))

RECURSIVE load_lines_retry(_, _)
load_lines_retry(lex, lines) ==
    IF lines = <<>> THEN lex
    ELSE load_lines_retry(load_line_retry(lex, Head(lines)), Tail(lines))

\* the lines a read delivers before it raises at line fail_at (0: no error)
ReadBefore(lines, fail_at) ==
    IF fail_at = 0 THEN lines ELSE SubSeq(lines, 1, fail_at - 1)

\* self._lexicon after _load_tonal_lexicon, started from lex.  f is the file
\* as the constructor meets it: whether it exists, its lines, the line at
\* which reading raises in the try block (fail_at) and in the except branch
\* (retry_fail_at).  Entries stored before an exception stay stored.
_load_tonal_lexicon(f, lex) ==
    IF ~f.exists THEN lex
    ELSE IF f.fail_at = 0 THEN load_lines(lex, f.lines)
    ELSE load_lines_retry(load_lines(lex, ReadBefore(f.lines, f.fail_at)),
                          ReadBefore(f.lines, f.retry_fail_at))

\* whether the load of f failed: the file is missing or a read raised
LoadFailed(f) == ~f.exists \/ f.fail_at # 0

-----------------------------------------------------------------------------
(* The inputs of the model.                                                *)

\* a lexicon file in the format of vader_lexicon.txt, with a blank line, a
\* line of one column, an unparsable score and a comma as decimal separator
LexiconLines ==
    <<
        <<"r", "a", "d", "TAB", "2", ".", "0">>,
        <<>>,
        <<"z", "l", "o", "TAB", "-", "4", ",", "0">>,
        <<"z", "l", "o">>,
        <<"n", "e", "TAB", "lat_a", "lat_b", "lat_c">>,
        <<":", ")", "TAB", "0", ".", "1">>,
        <<"U+2639", "TAB", "-", "3", ".", "0">> >>

\* the file read without error; an I/O error at its sixth line, in both
\* attempts; no file
LexiconFiles ==
    { [exists |-> TRUE, lines |-> LexiconLines, fail_at |-> 0, retry_fail_at |-> 0],
      [exists |-> TRUE, lines |-> LexiconLines, fail_at |-> 6, retry_fail_at |-> 6],
      [exists |-> FALSE, lines |-> <<>>, fail_at |-> 0, retry_fail_at |-> 0] }

\* the pieces texts are made of: words, two of them carrying two tokens
Vocabulary ==
    {
      <<"n", "e">>,
      <<"o", "ch", "e", "n", "soft">>,
      <<"zh", "e">>,
      <<"r", "a", "d", "a">>,
      <<"z", "l", "o">>,
      <<"Z", "L", "O", "!">>,
      <<":", ")">>,
      <<"U+2639">>,
      <<"n", "o">>,
      <<":", ")", ":", ")">>,
      <<"o", "ch", "e", "n", "soft", " ", "z", "l", "o">> }

\* " ".join(chunks)
RECURSIVE Join(_)
Join(chunks) ==
    IF chunks = <<>> THEN <<>>
    ELSE IF Len(chunks) = 1 THEN chunks[1]
    ELSE chunks[1] \o <<" ">> \o Join(Tail(chunks))

ChunkSeqs == UNION {[1..n -> Vocabulary] : n \in 0..MaxChunks}

-----------------------------------------------------------------------------
(* normalizer.py (RussianNormalizer) is not among the sources: the         *)
(* interface the analyzer relies on is taken from the specification.       *)

\* the base form of a word
Lemma(value) ==
    IF value = <<"r", "a", "d", "a">> THEN <<"r", "a", "d">> ELSE value

\* RussianNormalizer.normalize: same length, same order, value replaced by
\* the lemma, original_value kept; without lemmas the tokens come back as
\* they went in
normalize(word_tokens, with_lemmas) ==
    [i \in 1..Len(word_tokens) |->
        IF with_lemmas
        THEN Token(Lemma(word_tokens[i].value), word_tokens[i].original_value, FALSE)
        ELSE word_tokens[i]]

-----------------------------------------------------------------------------
(* sentiment_analyzer.py: analyze, and the host loop around it.            *)

NoResult == [score |-> Plain(Zero), sentiment |-> "none", word_count |-> -1]

NoRaw == [score |-> Zero, word_count |-> -1]

\* the list analyze builds from the tokenizer output: normalized words,
\* then the emoji tokens
merge_tokens(toks, with_lemmas) ==
    LET emoji_tokens == SelectSeq(toks, LAMBDA t : t.is_emoji)
        word_tokens == SelectSeq(toks, LAMBDA t : ~t.is_emoji)
        normalized_words == normalize(word_tokens, with_lemmas)
    IN  normalized_words \o emoji_tokens

\* pc      "idle" | "start" | "communicate" | "wait_for" | "returned"
\* path    whether _find_mystem found an executable
\* child   "none" | "running" | "hung" | "exited": the spawned process; a hung
\*         process neither closes its output nor exits
\* stdout  the lines the process has written
\* killed  whether process.kill() was called
\* results the mapping returned
StemIdle ==
    [pc |-> "idle", path |-> FALSE, child |-> "none", stdout |-> <<>>,
     killed |-> FALSE, results |-> EmptyDict]

Init ==
    /\ pc = "new"
    /\ file \in LexiconFiles
    /\ lexicon = EmptyDict
    /\ text = <<>>
    /\ lemmatized = FALSE
    /\ tokens = <<>>
    /\ all_tokens = <<>>
    /\ raw = NoRaw
    /\ outcome = "none"
    /\ error = "none"
    /\ result = NoResult
    /\ stem = StemIdle

\* SentimentAnalyzer.__init__
Construct ==
    /\ pc = "new"
    /\ lexicon' = _load_tonal_lexicon(file, EmptyDict)
    /\ pc' = "ready"
    /\ UNCHANGED <<file, text, lemmatized, tokens, all_tokens, raw, outcome,
                   error, result, stem>>

\* one call of analyze(t) on the constructed analyzer
Analyze(t, with_lemmas) ==
    /\ text' = t
    /\ lemmatized' = with_lemmas
    /\ tokens' = tokenize_with_positions(t)
    /\ all_tokens' = merge_tokens(tokens', with_lemmas)
    /\ raw' = _apply_vader_rules_enhanced(lexicon, all_tokens')
    /\ \E normalized_score \in {_normalize_vader_score(raw'.score, raw'.word_count)} :
           IF normalized_score.raised = "none"
           THEN /\ outcome' = "returned"
                /\ error' = "none"
                /\ \E sentiment \in {_get_sentiment_label(normalized_score.value)} :
                       result' = [score |-> normalized_score.value,
                                  sentiment |-> sentiment,
                                  word_count |-> raw'.word_count]
           ELSE /\ outcome' = "raised"
                /\ error' = normalized_score.raised
                /\ result' = NoResult
    /\ pc' = "done"
    /\ UNCHANGED <<file, lexicon, stem>>

\* the host's next iteration: the call's locals are gone
NextIteration ==
    /\ pc = "done"
    /\ pc' = "ready"
    /\ text' = <<>>
    /\ lemmatized' = FALSE
    /\ tokens' = <<>>
    /\ all_tokens' = <<>>
    /\ raw' = NoRaw
    /\ outcome' = "none"
    /\ error' = "none"
    /\ result' = NoResult
    /\ UNCHANGED <<file, lexicon, stem>>

\* the host calls analyze with some text; the normalizer delivers lemmas or
\* does not
AnalyzeCall ==
    /\ pc = "ready"
    /\ \E chunks \in ChunkSeqs, with_lemmas \in BOOLEAN :
           Analyze(Join(chunks), with_lemmas)

Next ==
    \/ Construct
    \/ AnalyzeCall
    \/ NextIteration

Spec == Init /\ [][Next]_vars

-----------------------------------------------------------------------------
(* stem_processor.py: one call of MyStemProcessor.analyze_text, and the    *)
(* process it spawns.                                                      *)

\* A line of the process's standard output, after decoding, is a record:
\*   json     whether json.loads accepts the line as an object
\*   keyed    whether the line contains the text "text" or "analysis" in quotes
\*   text     the value of its "text" key, <<>> when absent or empty
\*   analysis the value of its "analysis" key, a sequence of [lex, gr]
\* and a line of white space is BlankLine.
BlankLine == [json |-> FALSE, keyed |-> FALSE, text |-> <<>>, analysis |-> <<>>]

StemLines ==
    { \* {"text":"рада","analysis":[{"lex":"рад","gr":"A,..."}]}
      [json |-> TRUE, keyed |-> TRUE, text |-> <<"r", "a", "d", "a">>,
       analysis |-> <<[lex |-> <<"r", "a", "d">>, gr |-> "A"] >>],
      \* {"text":"рад","analysis":[{"lex":"\u00f0\u00e0\u00e4","gr":"A=m"}]}
      [json |-> TRUE, keyed |-> TRUE, text |-> <<"r", "a", "d">>,
       analysis |-> <<[lex |-> <<"l1_F0", "l1_E0", "l1_E4">>, gr |-> "A"] >>],
      \* {"text":"ЗЛО","analysis":[]}
      [json |-> TRUE, keyed |-> TRUE, text |-> <<"Z", "L", "O">>, analysis |-> <<>>],
      \* {"analysis":[{"lex":"зло","gr":"S,..."}]}
      [json |-> TRUE, keyed |-> TRUE, text |-> <<>>,
       analysis |-> <<[lex |-> <<"z", "l", "o">>, gr |-> "S"] >>],
      \* text that is not JSON
      [json |-> FALSE, keyed |-> TRUE, text |-> <<>>, analysis |-> <<>>],
      BlankLine }

\* None where a str is expected: a value that is no sequence of characters
None == <<"None">>

\* the dataclass Result
Result(original_word, lemma, grammar_info, part_of_speech) ==
    [original_word |-> original_word, lemma |-> lemma,
     grammar_info |-> grammar_info, part_of_speech |-> part_of_speech]

\* grammar_info is modelled by its first comma-separated part
extract_part_of_speech(grammar_info) ==
    IF grammar_info = "" THEN "UNKN"
    ELSE IF grammar_info = "S" THEN "NOUN"
    ELSE IF grammar_info = "A" THEN "ADJ"
    ELSE IF grammar_info = "V" THEN "VERB"
    ELSE IF grammar_info = "ADV" THEN "ADV"
    ELSE IF grammar_info = "PR" THEN "PREP"
    ELSE IF grammar_info = "CONJ" THEN "CONJ"
    ELSE IF grammar_info = "PART" THEN "PART"
    ELSE IF grammar_info = "SPRO" THEN "PRON"
    ELSE IF grammar_info = "NUM" THEN "NUM"
    ELSE "UNKN"

\* ^[а-яёА-ЯЁ\s\-]+$
is_valid_russian_text(s) ==
    /\ s # <<>>
    /\ \A i \in 1..Len(s) : s[i] \in CyrillicClass \cup Whitespace \cup {"-"}

\* The characters U+00F0, U+00E0 and U+00E4, which is how the bytes F0 E0 E4
\* read as ISO 8859-1, and what these bytes are in the three code pages.
Latin1Chars == {"l1_F0", "l1_E0", "l1_E4"}

CodePage(encoding_name) ==
    IF encoding_name = "windows-1251"
    THEN ("l1_F0" :> "r") @@ ("l1_E0" :> "a") @@ ("l1_E4" :> "d")
    ELSE IF encoding_name = "cp866"
    THEN ("l1_F0" :> "YO") @@ ("l1_E0" :> "r") @@ ("l1_E4" :> "f")
    ELSE ("l1_F0" :> "P") @@ ("l1_E0" :> "YU") @@ ("l1_E4" :> "D")

\* text.encode('iso-8859-1') raises UnicodeEncodeError on a character above
\* U+00FF
Latin1Encodable(s) ==
    \A i \in 1..Len(s) : s[i] \notin CyrillicClass \cup EmojiChars

\* text.encode('iso-8859-1').decode(encoding_name): ASCII stays as it is
Redecode(s, encoding_name) ==
    [i \in 1..Len(s) |->
        IF s[i] \in Latin1Chars THEN CodePage(encoding_name)[s[i]] ELSE s[i]]

fix_my_stem_encoding(s) ==
    LET fits(encoding_name) ==
            Latin1Encodable(s) /\ is_valid_russian_text(Redecode(s, encoding_name))
    IN  IF s = <<>> THEN s
        ELSE IF is_valid_russian_text(s) THEN s
        ELSE IF fits("windows-1251") THEN Redecode(s, "windows-1251")
        ELSE IF fits("cp866") THEN Redecode(s, "cp866")
        ELSE IF fits("koi8-r") THEN Redecode(s, "koi8-r")
        ELSE s

\* The Result of one line as a one-element sequence, <<>> where the code
\* returns None.
parse_my_stem_line(line) ==
    IF line = BlankLine \/ ~line.keyed THEN <<>>
    ELSE IF ~line.json THEN <<>>
    ELSE IF line.text = <<>> THEN <<>>
    ELSE IF line.analysis = <<>> THEN <<Result(line.text, None, "None", "None")>>
    ELSE <<Result(line.text, line.analysis[1].lex, line.analysis[1].gr,
                  extract_part_of_speech(line.analysis[1].gr))>>

RECURSIVE parse_lines(_, _)
parse_lines(results, lines) ==
    IF lines = <<>> THEN results
    ELSE LET parsed == parse_my_stem_line(Head(lines))
             fixed == IF parsed[1].lemma # None /\ parsed[1].lemma # <<>>
                      THEN [parsed[1] EXCEPT !.lemma = fix_my_stem_encoding(@)]
                      ELSE parsed[1]
         IN  IF parsed = <<>>
             THEN parse_lines(results, Tail(lines))
             ELSE parse_lines(DictSet(results, Lower(parsed[1].original_word), fixed),
                              Tail(lines))

parse_my_stem_json_output(output) ==
    parse_lines(EmptyDict, SelectSeq(output, LAMBDA l : l # BlankLine))

\* the call enters the try block: no executable raises FileNotFoundError, a
\* failing create_subprocess_exec raises OSError, and the except clause
\* returns the empty mapping; otherwise the process runs
StemSpawn ==
    /\ stem.pc = "start"
    /\ \/ /\ stem.path
          /\ stem' = [stem EXCEPT !.pc = "communicate", !.child = "running"]
       \/ stem' = [stem EXCEPT !.pc = "returned", !.results = EmptyDict]
    /\ UNCHANGED pipeline_vars

\* the process writes a line
ChildWrite ==
    /\ stem.child = "running"
    /\ Len(stem.stdout) < MaxStemLines
    /\ \E line \in StemLines :
           stem' = [stem EXCEPT !.stdout = Append(@, line)]
    /\ UNCHANGED pipeline_vars

\* the process closes its output and exits
ChildExit ==
    /\ stem.child = "running"
    /\ stem' = [stem EXCEPT !.child = "exited"]
    /\ UNCHANGED pipeline_vars

\* the process stops for good without closing its output
ChildHang ==
    /\ stem.child = "running"
    /\ stem' = [stem EXCEPT !.child = "hung"]
    /\ UNCHANGED pipeline_vars

\* await process.communicate(...): it returns when both pipes are at end of
\* file and the process has exited; it is given no timeout
StemCommunicate ==
    /\ stem.pc = "communicate"
    /\ stem.child = "exited"
    /\ stem' = [stem EXCEPT !.pc = "wait_for"]
    /\ UNCHANGED pipeline_vars

\* await asyncio.wait_for(process.wait(), timeout=5.0) and the rest of the
\* call: a process that has exited is waited for at once, one that has not
\* is killed when the five seconds are over; then the output is parsed
StemWaitFor ==
    /\ stem.pc = "wait_for"
    /\ stem' = [stem EXCEPT
                  !.pc = "returned",
                  !.killed = (stem.child # "exited"),
                  !.child = "exited",
                  !.results = parse_my_stem_json_output(stem.stdout)]
    /\ UNCHANGED pipeline_vars

\* the steps analyze_text can take by itself
StemStep == StemSpawn \/ StemCommunicate \/ StemWaitFor

StemInit ==
    /\ pc = "new"
    /\ file = [exists |-> FALSE, lines |-> <<>>, fail_at |-> 0, retry_fail_at |-> 0]
    /\ lexicon = EmptyDict
    /\ text = <<>>
    /\ lemmatized = FALSE
    /\ tokens = <<>>
    /\ all_tokens = <<>>
    /\ raw = NoRaw
    /\ outcome = "none"
    /\ error = "none"
    /\ result = NoResult
    /\ \E found \in BOOLEAN : stem = [StemIdle EXCEPT !.pc = "start", !.path = found]

StemNext ==
    \/ StemSpawn
    \/ ChildWrite
    \/ ChildExit
    \/ ChildHang
    \/ StemCommunicate
    \/ StemWaitFor

StemSpec == StemInit /\ [][StemNext]_vars

-----------------------------------------------------------------------------
(* The properties.                                                         *)

OneTwentieth == Rat(5, 100)

InRange(v) == SurdCmp(v, Int2Rat(-4)) >= 0 /\ SurdCmp(v, Int2Rat(4)) <= 0

\* the positions of toks whose value is a key of lex
Matched(lex, toks) == {k \in 1..Len(toks) : toks[k].value \in DOMAIN lex}

\* toks without the positions in drop
Without(toks, drop) ==
    LET kept(k) == Cardinality({j \in 1..k : j \notin drop})
        n == kept(Len(toks))
    IN  [p \in 1..n |-> toks[CHOOSE k \in 1..Len(toks) : k \notin drop /\ kept(k) = p]]

\* s with the characters from..to in lower case
LowerSpan(s, from, to) ==
    [p \in 1..Len(s) |-> IF from <= p /\ p <= to THEN LowerChar(s[p]) ELSE s[p]]

\* C1: every call of analyze returns a result, and its score lies in the
\* closed range [-4.0, 4.0].
C1_ScoreInRange ==
    outcome # "none" => (outcome = "returned" /\ InRange(result.score))

\* C2, as stated: a returned result has word_count 0 if and only if its
\* score is 0.0.
C2_ZeroIffNoMatch ==
    outcome = "returned" => (result.word_count = 0 <=> SurdIsZero(result.score))

\* C2, as the code has it: a returned result with word_count 0 has score 0.0,
\* and a returned score is 0.0 exactly when the raw total of the rule engine
\* is 0.0, which happens with matched tokens too.
C2_NoMatchGivesZero ==
    outcome = "returned" =>
        /\ result.word_count = 0 => SurdIsZero(result.score)
        /\ SurdIsZero(result.score) <=> raw.score = Zero

\* a result with matched tokens and score 0.0: a matched word behind a
\* booster of multiplier 0.0, or contributions that cancel
C2_Witness ==
    /\ outcome = "returned"
    /\ result.word_count > 0
    /\ \A k \in 1..Len(all_tokens) : ~all_tokens[k].is_emoji
    /\ SurdIsZero(result.score)

\* C3: the rule engine receives the tokens of the tokenizer in their order of
\* appearance, words and emoji alike, each word possibly normalized.
C3_TextualOrder ==
    outcome # "none" =>
        /\ Len(all_tokens) = Len(tokens)
        /\ \A k \in 1..Len(tokens) :
               /\ all_tokens[k].is_emoji = tokens[k].is_emoji
               /\ all_tokens[k].original_value = tokens[k].original_value

\* C4: the word_count of the rule engine is the number of tokens, words and
\* emoji alike, whose value is a key of the lexicon, whatever rules fired on
\* them and whatever their scores.
C4_WordCount ==
    outcome # "none" =>
        raw.word_count = Cardinality(Matched(lexicon, all_tokens))

\* a matched word, a matched emoji and a matched token whose adjusted score
\* is 0.0 have been counted
C4_Witness ==
    /\ outcome # "none"
    /\ raw.word_count >= 2
    /\ \E k \in Matched(lexicon, all_tokens) : all_tokens[k].is_emoji
    /\ \E k \in Matched(lexicon, all_tokens) :
           /\ ~all_tokens[k].is_emoji
           /\ word_score(lexicon, all_tokens, k) = Zero

\* scores at and around the two thresholds
LabelScores ==
    {Plain(Rat(n, 100)) : n \in {-400, -6, -5, -4, 0, 4, 5, 6, 400}}

LabelOf(score) ==
    IF SurdCmp(score, OneTwentieth) >= 0 THEN "Positive"
    ELSE IF SurdCmp(score, RNeg(OneTwentieth)) > 0 THEN "Neutral"
    ELSE "Negative"

\* C5: a score of 0.05 or more is labelled Positive, one of -0.05 or less
\* Negative, one strictly between Neutral; and the label of a result is the
\* label of the score of the same result.
C5_Label ==
    /\ \A s \in LabelScores : _get_sentiment_label(s) = LabelOf(s)
    /\ outcome = "returned" =>
           /\ SurdCmp(result.score, OneTwentieth) >= 0
                  => result.sentiment = "Positive"
           /\ SurdCmp(result.score, RNeg(OneTwentieth)) <= 0
                  => result.sentiment = "Negative"
           /\ (SurdCmp(result.score, RNeg(OneTwentieth)) > 0
                  /\ SurdCmp(result.score, OneTwentieth) < 0)
                  => result.sentiment = "Neutral"

\* a result with matched tokens whose score lies strictly between the
\* thresholds without being 0.0
C5_Witness ==
    /\ outcome = "returned"
    /\ ~SurdIsZero(result.score)
    /\ result.sentiment = "Neutral"

\* C6: after a failed load the lexicon is empty, and every call of analyze
\* returns word_count 0, score 0.0 and the Neutral label.
C6_EmptyAfterFailure ==
    (pc # "new" /\ LoadFailed(file)) =>
        /\ lexicon = EmptyDict
        /\ outcome # "none" =>
               /\ outcome = "returned"
               /\ result.word_count = 0
               /\ SurdIsZero(result.score)
               /\ result.sentiment = "Neutral"

\* the matches of the tokenizer in the text that yield a word token
WordMatches(s) ==
    SelectSeq(FindIter(s, 1),
              LAMBDA m : m.word /\ StripTrailingPunct(SubSeq(s, m.from, m.to)) # <<>>)

\* C7: a word of more than one character written in upper case in the text
\* and matched in the lexicon gets 1.2 times the per-token score it gets when
\* the same word is written in lower case, the rest of the text unchanged.
C7_CapsScore ==
    outcome # "none" =>
        \A k \in 1..Len(WordMatches(text)) :
            LET m == WordMatches(text)[k]
                written == StripTrailingPunct(SubSeq(text, m.from, m.to))
                lowered == merge_tokens(
                               tokenize_with_positions(LowerSpan(text, m.from, m.to)),
                               lemmatized)
            IN  (/\ IsUpper(written)
                 /\ Len(written) > 1
                 /\ all_tokens[k].value \in DOMAIN lexicon
                 /\ Len(lowered) = Len(all_tokens)
                 /\ lowered[k].value = all_tokens[k].value)
                => word_score(lexicon, all_tokens, k)
                       = RMul(Rat(12, 10), word_score(lexicon, lowered, k))

\* the positions of the emoji tokens with a strictly positive lexicon score
PositiveEmojis(lex, toks) ==
    {k \in Matched(lex, toks) : toks[k].is_emoji /\ RGt(lex[toks[k].value], Zero)}

\* C8: a token sequence with three positive emoji tokens gets a strictly
\* larger raw total than the same sequence with two of them removed.
C8_ThreeEmojiBeatOne ==
    (outcome # "none" /\ Cardinality(PositiveEmojis(lexicon, all_tokens)) = 3) =>
        \A keep \in PositiveEmojis(lexicon, all_tokens) :
            LET drop == PositiveEmojis(lexicon, all_tokens) \ {keep}
                one == _apply_vader_rules_enhanced(lexicon, Without(all_tokens, drop))
            IN  RGt(raw.score, one.score)

\* C9: with matched tokens, whatever the raw total, the normalizer returns a
\* value and analyze raises no arithmetic fault.
C9_NormalizerTotal ==
    (outcome # "none" /\ raw.word_count > 0) =>
        /\ _normalize_vader_score(raw.score, raw.word_count).raised = "none"
        /\ error \notin {"ValueError", "ZeroDivisionError"}

\* C10: a call of analyze_text that has spawned the process returns in the
\* end, whatever the process does.
C10_CallReturns == (stem.pc = "communicate") ~> (stem.pc = "returned")

\* the event loop resumes analyze_text whenever it can go on; nothing makes
\* the spawned process act
StemFairSpec == StemSpec /\ WF_vars(StemStep)

\* the positions in the three before i that hold a negator
Negators(toks, i) ==
    {j \in 1..(i - 1) :
        /\ i - j <= 3
        /\ ~toks[j].is_emoji
        /\ toks[j].value \in _load_negation_words}

\* -0.74 at distance 1, -0.666 at distance 2, -0.592 at distance 3
NegationFactor(d) ==
    IF d = 1 THEN Rat(-740, 1000)
    ELSE IF d = 2 THEN Rat(-666, 1000)
    ELSE Rat(-592, 1000)

\* C11: a matched word with negators among the three tokens before it has its
\* score multiplied by the factor of the distance to the nearest of them, and
\* a matched word with none keeps its score.
C11_NearestNegator ==
    outcome # "none" =>
        \A i \in Matched(lexicon, all_tokens) :
            LET score == lexicon[all_tokens[i].value]
                negated == _apply_negation_rules_enhanced(all_tokens, i, score)
                near == Negators(all_tokens, i)
            IN  ~all_tokens[i].is_emoji =>
                    IF near = {} THEN negated = score
                    ELSE negated = RMul(score,
                             NegationFactor(i - (CHOOSE j \in near : \A k \in near : k <= j)))

\* whether the token before i is a booster word
BoostedBefore(toks, i) ==
    /\ i > 1
    /\ ~toks[i - 1].is_emoji
    /\ toks[i - 1].value \in DOMAIN _load_booster_words

\* whether the token after i is an intensifier
IntensifiedAfter(toks, i) ==
    /\ i < Len(toks)
    /\ ~toks[i + 1].is_emoji
    /\ toks[i + 1].value \in _intensifiers

\* the score of a matched token as the booster rule receives it
BoosterInput(lex, toks, i) ==
    IF toks[i].is_emoji THEN lex[toks[i].value]
    ELSE _apply_negation_rules_enhanced(toks, i, lex[toks[i].value])

\* C12: the booster rule multiplies the score of a matched token by the
\* multiplier of a booster word right before it and then leaves the next
\* token alone; without one it multiplies by 1.1 for an intensifier right
\* after it; without either it leaves the score as it is.
C12_BoosterOneOfThree ==
    outcome # "none" =>
        \A i \in Matched(lexicon, all_tokens) :
            LET score == BoosterInput(lexicon, all_tokens, i)
                boosted == _apply_booster_rules_enhanced(all_tokens, i, score)
            IN  /\ BoostedBefore(all_tokens, i) =>
                       boosted = RMul(score, _load_booster_words[all_tokens[i - 1].value])
                /\ (~BoostedBefore(all_tokens, i) /\ IntensifiedAfter(all_tokens, i)) =>
                       boosted = RMul(score, Rat(11, 10))
                /\ (~BoostedBefore(all_tokens, i) /\ ~IntensifiedAfter(all_tokens, i)) =>
                       boosted = score

\* a matched token with a booster word of multiplier 2.0 before it and an
\* intensifier after it
C12_Witness ==
    /\ outcome # "none"
    /\ \E i \in Matched(lexicon, all_tokens) :
           /\ BoostedBefore(all_tokens, i)
           /\ IntensifiedAfter(all_tokens, i)
           /\ _load_booster_words[all_tokens[i - 1].value] = Int2Rat(2)
           /\ BoosterInput(lexicon, all_tokens, i) # Zero

-----------------------------------------------------------------------------
(* tokenizer.py by itself: tokenize_with_positions applied to a text.      *)

\* the keys of the static tables that hold a space or a hyphen
MultiWordKeys ==
    {k \in DOMAIN modifiers \cup contrast_words \cup DOMAIN _load_booster_words
               \cup _intensifiers \cup _load_negation_words :
        Contains(k, " ") \/ Contains(k, "-")}

\* a lowercase and an uppercase letter, the separators of the keys, a
\* trailing punctuation mark, the parts of an emoticon, an emoji and a digit
TokAlphabet == {"n", "E", "U+1C80", " ", "-", "!", ":", ")", "U+2639", "8"}

\* every text over TokAlphabet of up to MaxTextLen characters, and every
\* multi-word key, by itself and followed by " НЕ! :)"
TokTexts ==
    UNION {[1..n -> TokAlphabet] : n \in 0..MaxTextLen}
        \cup MultiWordKeys
        \cup {k \o <<" ", "N", "E", "!", " ", ":", ")">> : k \in MultiWordKeys}

TokInit ==
    /\ pc = "text"
    /\ text \in TokTexts
    /\ tokens = <<>>
    /\ file = [exists |-> FALSE, lines |-> <<>>, fail_at |-> 0, retry_fail_at |-> 0]
    /\ lexicon = EmptyDict
    /\ lemmatized = FALSE
    /\ all_tokens = <<>>
    /\ raw = NoRaw
    /\ outcome = "none"
    /\ error = "none"
    /\ result = NoResult
    /\ stem = StemIdle

\* TextTokenizerEnhanced.tokenize_with_positions(text)
Tokenize ==
    /\ pc = "text"
    /\ tokens' = tokenize_with_positions(text)
    /\ pc' = "tokenized"
    /\ UNCHANGED <<file, lexicon, text, lemmatized, all_tokens, raw, outcome,
                   error, result, stem>>

TokNext == Tokenize

TokSpec == TokInit /\ [][TokNext]_vars

\* value is original_value in lower case without the punctuation marks at
\* its end
FoldedAndStripped(value, original_value) ==
    /\ Len(value) <= Len(original_value)
    /\ \A p \in 1..Len(value) : value[p] = LowerChar(original_value[p])
    /\ \A p \in (Len(value) + 1)..Len(original_value) :
           original_value[p] \in TrailingPunctClass

\* C13: no token of the tokenizer has an empty value; the value of a word
\* token is a run of lowercase Cyrillic letters and is its original_value in
\* lower case without the trailing punctuation; the value of an emoji token
\* is its original_value; and no value is a key with a space or a hyphen.
C13_TokenizerOutput ==
    pc = "tokenized" =>
        \A k \in 1..Len(tokens) :
            /\ tokens[k].value # <<>>
            /\ tokens[k].is_emoji => tokens[k].value = tokens[k].original_value
            /\ ~tokens[k].is_emoji =>
                   /\ \A p \in 1..Len(tokens[k].value) :
                          tokens[k].value[p] \in CyrLower \cup CyrExtendedLower
                   /\ FoldedAndStripped(tokens[k].value, tokens[k].original_value)
            /\ tokens[k].value \notin MultiWordKeys

\* a multi-word key followed by an uppercase word with punctuation and an
\* emoticon has been tokenized
C13_Witness ==
    /\ pc = "tokenized"
    /\ \E k \in MultiWordKeys : Len(text) > Len(k) /\ SubSeq(text, 1, Len(k)) = k
    /\ \E k \in 1..Len(tokens) :
           /\ ~tokens[k].is_emoji
           /\ tokens[k].value # tokens[k].original_value
           /\ tokens[k].original_value # Lower(tokens[k].original_value)
    /\ \E k \in 1..Len(tokens) : tokens[k].is_emoji

=============================================================================
